---- MODULE Spec2Model ----
(***************************************************************************)
(* Boot-time, run-time and shutdown-time event tracing                     *)
(* (sys/kern/kern_boottrace.c): three trace tables bt, rt, st, the         *)
(* lock-free slot allocation of dotrace, the phase routing of boottrace /  *)
(* runtrace / shuttrace, boottrace_reset / boottrace_resize and the        *)
(* renderer boottrace_display.                                             *)
(*                                                                         *)
(* The specifications share the state:                                     *)
(*   SeqSpec     one caller, every handler runs to completion in one step; *)
(*   Spec        several callers, one step per shared-memory access of the *)
(*               handlers (cursor read, compare-and-set, slot fill, latch  *)
(*               reads and writes, drop counter read and write);           *)
(*   WrapSpec    the steps of Spec for plain submissions, boot complete;   *)
(*   ResizeSpec  the steps of Spec for resizes and plain submissions;      *)
(*   EarlySpec   one caller, before and after boottrace_init;              *)
(*   DisplaySpec one caller, shutdown events and the console dump;         *)
(*   UptimeSpec  the same with cycle counts beyond the range of a product; *)
(*   RaceSpec    the steps of Spec for shuttrace, time, the console dump;  *)
(*   SysctlSpec  one caller, the sysctl endpoints and the entry points;    *)
(*   DropSpec    the steps of Spec for plain submissions, boot table;      *)
(*   FairDropSpec  DropSpec with every caller kept running;                *)
(*   FullSpec    the steps of Spec for boottrace and shuttrace;            *)
(*   WalkSpec    the steps of the renderer among those of submissions and  *)
(*               resizes;                                                  *)
(*   FairWalkSpec  WalkSpec with every caller kept running.                *)
(* Table capacities (3000 / 2000 / 1000 slots in the source) are scaled to *)
(* a few slots; slot i of the C array is element i+1 of a sequence.        *)
(***************************************************************************)
EXTENDS Integers, Sequences, FiniteSets, TLC

VARIABLES
    tbl,        \* the three struct bt: bt, rt, st
    bootdone,   \* static bool bootdone
    shutdown,   \* static bool shutdown
    fatal,      \* rebooting || panicstr (set by the rest of the kernel)
    cyc,        \* the value the next get_cyclecount() returns
    th,         \* per caller: position in its handler and its locals
    ncalls,     \* calls started so far
    last,       \* the call completed last, by any caller (history)
    cnt,        \* per table: submissions routed to it, by outcome (history)
    allocs,     \* per table: the slot indexes handed out, in order (history)
    fills,      \* per table: the tsc values written, in order (history)
    out,        \* what the last call printed, one entry per table rendered
    size0       \* per table: the size boottrace_init gave it (history)

vars == <<tbl, bootdone, shutdown, fatal, cyc, th, ncalls, last, cnt, allocs, fills, out, size0>>

----------------------------------------------------------------------------
(* Bounds of the model *)

\* scaled stand-in for BT_TABLE_MINSIZE (500): the least boot table size
MinBootSize == 2
\* scaled stand-in for BT_TABLE_DEFSIZE (3000)
MaxBootSize == 3
\* scaled stand-in for BT_TABLE_RUNSIZE (2000): run table sizes 1..MaxRunSize
MaxRunSize == 2
\* scaled stand-in for BT_TABLE_SHTSIZE (1000): shutdown table sizes 1..MaxShutSize
MaxShutSize == 2
\* boottrace_resize is called with newsize in 1..MaxNewSize
MaxNewSize == 3
\* calls made in one run of SeqSpec
MaxSeqCalls == 5
\* concurrent callers of Spec
NThreads == 2
\* calls made in one run of Spec, all callers together
MaxCalls == 3
\* plain submissions made in one run of WrapSpec, all callers together
MaxWrapCalls == 5
\* the shutdown table of DisplaySpec has DispShutSize slots
DispShutSize == 6
\* calls made in one run of DisplaySpec
MaxDispCalls == 6
\* shuttrace calls made in one run of RaceSpec, all callers together
MaxRaceCalls == 3
\* milliseconds that pass in one run of RaceSpec
MaxRaceTicks == 2
\* calls made in one run of ResizeSpec after the reset, all callers together
MaxResizeCalls == 4
\* calls made in one run of EarlySpec
MaxEarlyCalls == 4
\* the cycle counter when boottrace_init has run: past its first millisecond
FirstCyc == 4
\* tsc_freq, cycles per second of the machine: two cycles in a millisecond
tsc_freq == 2000
\* render thresholds 0..MaxThreshold
MaxThreshold == 1
\* calls made under SysctlSpec
MaxSysctlCalls == 4
\* calls made under DropSpec
MaxDropCalls == 4
\* calls made under WalkSpec
MaxWalkCalls == 3
\* calls made under UptimeSpec
MaxUptimeCalls == 5
\* calls made under FullSpec
MaxFullCalls == 4

TableIds == {"bt", "rt", "st"}
Threads  == 1..NThreads
NULL     == <<>>
OK       == "0"
Errors   == {"ENOSPC", "EINVAL", "ENOMEM"}

----------------------------------------------------------------------------
(* struct bt_event and struct bt *)

\* a slot of M_ZERO storage
ZeroEvent == [tsc |-> 0, name |-> "", tdname |-> ""]

\* malloc(n * sizeof(struct bt_event), M_BOOTTRACE, M_WAITOK|M_ZERO)
ZeroTable(n) == [i \in 1..n |-> ZeroEvent]

\* a static struct bt before boottrace_init
ZeroBt == [size |-> 0, curr |-> 0, wrap |-> 0, drops_early |-> 0, drops_full |-> 0,
           table |-> NULL]

\* the event dotrace writes: tsc = get_cyclecount(), the two names
Event(tsc, name, tdname) == [tsc |-> tsc, name |-> name, tdname |-> tdname]

\* tdname when the caller passes NULL: the current process or thread name
CurName == "proc"

Max(a, b) == IF a >= b THEN a ELSE b

----------------------------------------------------------------------------
(* dotrace: slot allocation and fill *)

\* faulty variant of NextIdx: the cursor wraps one slot early
NextIdxWrapEarly(idx, size) == IF idx + 1 >= size - 1 THEN 0 ELSE idx + 1

\* nxt = (idx + 1) % btp->size
NextIdx(idx, size) == (idx + 1) % size

\* faulty variant of TableFull: the wrap test inverted
TableFullWrapSet(nxt, wrap) == nxt = 0 /\ wrap # 0

\* faulty variant of TableFull: no table is ever found full
TableFullNever(nxt, wrap) == FALSE

\* nxt == 0 && btp->wrap == 0: a non-wrapping table is full
TableFull(nxt, wrap) == nxt = 0 /\ wrap = 0

\* faulty variant of CmpsetSucceeds: the compare-and-set fails whatever the cursor is
CmpsetNever(cur, idx) == FALSE

\* faulty variant of CmpsetSucceeds: the compare-and-set fails while a caller is inside
\* boottrace_display, as if the renderer held the cursor
CmpsetUnlessRendering(cur, idx) ==
    cur = idx /\ \A t \in Threads : th[t].pc \notin {"bd_start", "bd_read", "bd_next"}

\* faulty variant of CmpsetSucceeds: a plain store in place of the compare-and-set
CmpsetBlind(cur, idx) == TRUE

\* atomic_cmpset_int(&btp->curr, idx, nxt) stores nxt iff btp->curr is still idx
CmpsetSucceeds(cur, idx) == cur = idx

\* faulty variant of DropEarly: the drop counted as a drop of a full table
DropEarlyAsFull(b) == [b EXCEPT !.drops_full = @ + 1]

\* btp->drops_early++
DropEarly(b) == [b EXCEPT !.drops_early = @ + 1]

\* the writes to btp->table[idx]
FillSlot(table, idx, ev) == [table EXCEPT ![idx + 1] = ev]

\* what a call reports besides its error: the table, the slot, the drop reason
Res(S, error, t, idx, why) == [S |-> S, error |-> error, t |-> t, idx |-> idx, why |-> why]

\* dotrace(btp, eventname, tdname) run to completion by a single caller;
\* S is the kernel state [tbl, bootdone, shutdown, fatal, cyc]
dotrace(S, t, name, tdname) ==
    LET b == S.tbl[t] IN
    IF b.table = NULL
    THEN Res([S EXCEPT !.tbl[t] = DropEarly(@)], "ENOSPC", t, -1, "early")
    ELSE LET idx == b.curr
             nxt == NextIdx(idx, b.size)
         IN IF TableFull(nxt, b.wrap)
            THEN Res([S EXCEPT !.tbl[t].drops_full = @ + 1], "ENOSPC", t, -1, "full")
            ELSE Res([S EXCEPT !.tbl[t].curr = nxt,
                               !.tbl[t].table = FillSlot(@, idx, Event(S.cyc, name, tdname)),
                               !.cyc = @ + 1],
                     OK, t, idx, "")

----------------------------------------------------------------------------
(* Phase routing *)

\* faulty variant of RouteBoot: the run table whatever bootdone is
RouteBootRunOnly(bd) == "rt"

\* trace = &bt; if (bootdone) trace = &rt;
RouteBoot(bd) == IF bd THEN "rt" ELSE "bt"

\* faulty variant of RouteShut: the shutdown test only redirects the boot table
RouteShutBootOnly(trace, sd, fat) == IF (sd \/ fat) /\ trace = "bt" THEN "st" ELSE trace

\* faulty variant of RouteShut: the table chosen by bootdone is kept
RouteShutNever(trace, sd, fat) == trace

\* if (shutdown || rebooting || panicstr) trace = &st;
RouteShut(trace, sd, fat) == IF sd \/ fat THEN "st" ELSE trace

\* the table boottrace() hands to dotrace
SelectTable(bd, sd, fat) == RouteShut(RouteBoot(bd), sd, fat)

\* faulty variant of boottrace: a recorded event ends the boot phase
boottraceEndsBoot(S, name, tdname) ==
    LET r == dotrace(S, SelectTable(S.bootdone, S.shutdown, S.fatal), name, tdname) IN
    IF r.error = OK THEN [r EXCEPT !.S.bootdone = TRUE] ELSE r

boottrace(S, name, tdname) ==
    dotrace(S, SelectTable(S.bootdone, S.shutdown, S.fatal), name, tdname)

\* faulty variant of runtrace: the latch set before the event is routed
runtraceLatchFirst(S, name, tdname) == boottrace([S EXCEPT !.bootdone = TRUE], name, tdname)

\* error = boottrace(...); bootdone = true;
runtrace(S, name, tdname) ==
    LET r == boottrace(S, name, tdname) IN [r EXCEPT !.S.bootdone = TRUE]

\* faulty variant of shuttrace: entering the shutdown phase leaves the run phase
shuttraceLeavesRun(S, name, tdname) ==
    dotrace([S EXCEPT !.shutdown = TRUE, !.bootdone = FALSE], "st", name, tdname)

\* faulty variant of shuttrace: the latch set only once the event is recorded
shuttraceLatchOnSuccess(S, name, tdname) ==
    LET r == dotrace(S, "st", name, tdname) IN
    IF r.error = OK THEN [r EXCEPT !.S.shutdown = TRUE] ELSE r

\* shutdown = true; return (dotrace(&st, ...));
shuttrace(S, name, tdname) ==
    dotrace([S EXCEPT !.shutdown = TRUE], "st", name, tdname)

----------------------------------------------------------------------------
(* Reset and resize *)

\* faulty variant of boottrace_reset: the event submitted by boottrace, not runtrace
boottrace_resetNoLatch(S, actor) == boottrace(S, "reset: " \o actor, CurName)

\* snprintf(tmpbuf, sizeof(tmpbuf), "reset: %s", actor); runtrace(tmpbuf, NULL);
boottrace_reset(S, actor) == runtrace(S, "reset: " \o actor, CurName)

\* faulty variant of ResizeRejected: the current size accepted
ResizeRejectedLess(newsize, size) == newsize < size

\* if (newsize <= rt.size) return (EINVAL);
ResizeRejected(newsize, size) == newsize <= size

\* realloc(rt.table, newsize * sizeof(struct bt_event), M_BOOTTRACE, M_WAITOK | M_ZERO)
\* when it succeeds: the old slots, then zeroed ones
realloc(table, newsize) ==
    [i \in 1..newsize |-> IF i <= Len(table) THEN table[i] ELSE ZeroEvent]

\* rt.table = realloc(...): the pointer stored, NULL when the allocation fails
ReallocResult(table, newsize, allocok) == IF allocok THEN realloc(table, newsize) ELSE NULL

\* what boottrace_resize does to struct bt rt once the table is reallocated: rt.size = newsize
ResizeUpdate(b, newsize) == [b EXCEPT !.size = newsize]

boottrace_resize(S, newsize, allocok) ==
    IF ResizeRejected(newsize, S.tbl["rt"].size)
    THEN Res(S, "EINVAL", "none", -1, "")
    ELSE LET S1 == [S EXCEPT !.tbl["rt"].table = ReallocResult(@, newsize, allocok)] IN
         IF S1.tbl["rt"].table = NULL
         THEN Res(S1, "ENOMEM", "none", -1, "")
         ELSE LET S2 == [S1 EXCEPT !.tbl["rt"] = ResizeUpdate(@, newsize)]
                  r  == boottrace_reset(S2, "boottrace_resize")
              IN [r EXCEPT !.error = OK]

----------------------------------------------------------------------------
(* boottrace_display *)

\* the number of values of a uint64_t, 2^64 scaled down to 2^24
Uint64Values == 16777216

\* msecs = evtp->tsc * 1000 / tsc_freq, the product computed in a uint64_t
Msecs(tsc) == ((tsc * 1000) % Uint64Values) \div tsc_freq

\* dmsecs = (last_msecs && msecs > last_msecs) ? msecs - last_msecs : 0
Dmsecs(msecs, last_msecs) ==
    IF last_msecs # 0 /\ msecs > last_msecs THEN msecs - last_msecs ELSE 0

\* one row of BTC_DELTA_PRINT
Row(ev, msecs, delta) == [name |-> ev.name, tsc |-> ev.tsc, msecs |-> msecs, delta |-> delta]

\* the locals of boottrace_display before the walk; rows is what was printed so far, seen
\* (history) the row of every entry visited so far, printed or not, reads (history) the
\* index of every slot read so far
WalkStart == [first_msecs |-> 0, has_last |-> FALSE, last_ev |-> ZeroEvent, last_msecs |-> 0,
              last_dmsecs |-> 0, last_printed |-> FALSE, rows |-> <<>>, visited |-> 0,
              seen |-> <<>>, reads |-> <<>>]

\* faulty variant of Over: a delta equal to the threshold passes too
OverOrEqual(dthres, dmsecs) == dthres # 0 /\ dmsecs >= dthres

\* if (dthres && (dmsecs > dthres))
Over(dthres, dmsecs) == dthres # 0 /\ dmsecs > dthres

\* faulty variant of Landmark: the previous entry is never printed as a landmark
LandmarkNever(s) == <<>>

\* if (last_evtp && !last_printed) BTC_DELTA_PRINT(last_evtp, last_msecs, last_dmsecs);
Landmark(s) ==
    IF s.has_last /\ ~s.last_printed
    THEN <<Row(s.last_ev, s.last_msecs, s.last_dmsecs)>> ELSE <<>>

\* faulty variant of FirstMsecs: the first entry visited, whatever the later ones carry
FirstMsecsFirstVisited(first_msecs, msecs) == IF first_msecs = 0 THEN msecs ELSE first_msecs

\* if (first_msecs == 0 || msecs < first_msecs) first_msecs = msecs;
FirstMsecs(first_msecs, msecs) ==
    IF first_msecs = 0 \/ msecs < first_msecs THEN msecs ELSE first_msecs

\* the body of the loop for a slot whose tsc is not 0
VisitEntry(evtp, dthres, s) ==
    LET msecs  == Msecs(evtp.tsc)
        dmsecs == Dmsecs(msecs, s.last_msecs)
        over   == Over(dthres, dmsecs)
        rows   == IF over THEN s.rows \o Landmark(s) \o <<Row(evtp, msecs, dmsecs)>>
                  ELSE IF dthres = 0 THEN Append(s.rows, Row(evtp, msecs, dmsecs))
                  ELSE s.rows
        printed == over \/ dthres = 0
    IN [first_msecs |-> FirstMsecs(s.first_msecs, msecs),
        has_last |-> TRUE, last_ev |-> evtp, last_msecs |-> msecs, last_dmsecs |-> dmsecs,
        last_printed |-> printed, rows |-> rows, visited |-> s.visited + 1,
        seen |-> Append(s.seen, Row(evtp, msecs, dmsecs)), reads |-> s.reads]

\* evtp = &btp->table[i]; if (evtp->tsc == 0) goto next; else the body of the loop
VisitSlot(evtp, i, dthres, s) ==
    LET s1 == IF evtp.tsc = 0 THEN s ELSE VisitEntry(evtp, dthres, s)
    IN [s1 EXCEPT !.reads = Append(@, i)]

\* faulty variant of WalkNext: the index does not wrap at the end of the table
WalkNextNoWrap(i, size) == i + 1

\* next: i = (i + 1) % btp->size
WalkNext(i, size) == (i + 1) % size

\* do { ... next: i = (i + 1) % btp->size; } while (i != curr);
RECURSIVE Walk(_, _, _, _, _)
Walk(b, dthres, i, curr, s) ==
    LET s1 == VisitSlot(b.table[i + 1], i, dthres, s)
        ni == WalkNext(i, b.size)
    IN IF ni = curr THEN s1 ELSE Walk(b, dthres, ni, curr, s1)

\* faulty variant of WalkFrom: the walk starts at slot 0
WalkFromZero(b) == 0

\* i = curr = btp->curr: the slot the walk starts at
WalkFrom(b) == b.curr

\* total_dmsecs = (last_msecs > first_msecs) ? last_msecs - first_msecs : 0
TotalDmsecs(s) == IF s.last_msecs > s.first_msecs THEN s.last_msecs - s.first_msecs ELSE 0

\* what boottrace_display has printed when its walk ends with the locals s
Displayed(t, dthres, s) ==
    [tbl |-> t, dthres |-> dthres, header |-> TRUE, fault |-> FALSE, rows |-> s.rows,
     visited |-> s.visited, seen |-> s.seen, reads |-> s.reads, total |-> TotalDmsecs(s)]

\* boottrace_display(sbp, btp, dthres) on a table no one writes meanwhile: the header,
\* the rows and the footer; a table whose storage is NULL faults at btp->table[i]
boottrace_display(t, b, dthres) ==
    IF b.table = NULL
    THEN [tbl |-> t, dthres |-> dthres, header |-> TRUE, fault |-> TRUE, rows |-> <<>>,
          visited |-> 0, seen |-> <<>>, reads |-> <<>>, total |-> 0]
    ELSE Displayed(t, dthres, Walk(b, dthres, WalkFrom(b), b.curr, WalkStart))

\* sysctl_boottrace without a new value: boottrace_display(sbuf, &bt, 0) and (sbuf, &rt, 0)
sysctl_boottrace_read(S) ==
    <<boottrace_display("bt", S.tbl["bt"], 0), boottrace_display("rt", S.tbl["rt"], 0)>>

\* faulty variant of boottrace_dump_console: only the shutdown latch is tested
boottrace_dump_consoleShutdownOnly(S, shutdown_trace, threshold) ==
    IF shutdown_trace = 0 THEN <<>>
    ELSE IF S.shutdown
         THEN <<boottrace_display("st", S.tbl["st"], threshold)>>
         ELSE <<boottrace_display("bt", S.tbl["bt"], 0), boottrace_display("rt", S.tbl["rt"], 0)>>

\* boottrace_dump_console with the sysctl values shutdown_trace, shutdown_trace_threshold
boottrace_dump_console(S, shutdown_trace, threshold) ==
    IF shutdown_trace = 0 THEN <<>>
    ELSE IF S.shutdown \/ S.fatal
         THEN <<boottrace_display("st", S.tbl["st"], threshold)>>
         ELSE <<boottrace_display("bt", S.tbl["bt"], 0), boottrace_display("rt", S.tbl["rt"], 0)>>

----------------------------------------------------------------------------
(* The sysctl handlers that submit events *)

\* a message is the sequence of the pieces of the string written, ":" a piece of its own
RECURSIVE Cat(_)
Cat(pieces) == IF pieces = <<>> THEN "" ELSE Head(pieces) \o Cat(Tail(pieces))

\* delim = strchr(message, ':'): the position of the first ":", 0 when there is none
Strchr(message) ==
    IF \E i \in DOMAIN message : message[i] = ":"
    THEN CHOOSE i \in DOMAIN message :
             message[i] = ":" /\ \A j \in 1..(i - 1) : message[j] # ":"
    ELSE 0

\* "<tdname>:<eventname>", or the name of the current process and the whole message
boottrace_parse_message(message) ==
    LET delim == Strchr(message) IN
    IF delim # 0
    THEN [tdname |-> Cat(SubSeq(message, 1, delim - 1)),
          eventname |-> Cat(SubSeq(message, delim + 1, Len(message)))]
    ELSE [tdname |-> CurName, eventname |-> Cat(message)]

\* faulty variant of SysctlError: the drop reported to the requester
SysctlErrorKept(error) == error

\* if (error == ENOSPC) error = 0;
SysctlError(error) == IF error = "ENOSPC" THEN OK ELSE error

\* a handler that returns before it submits anything
NoSubmission(S, error) == Res(S, error, "none", -1, "")

\* sysctl_boottrace with a new value; copyin is what sysctl_handle_string returns
sysctl_boottrace_write(S, copyin, message) ==
    IF copyin # OK THEN NoSubmission(S, copyin)
    ELSE LET m == boottrace_parse_message(message)
             r == boottrace(S, m.eventname, m.tdname)
         IN [r EXCEPT !.error = SysctlError(@)]

\* faulty variant of sysctl_runtrace: the event handed to dotrace(&rt, ...) directly
sysctl_runtraceDirect(S, newptr, copyin, message) ==
    IF ~newptr THEN NoSubmission(S, OK)
    ELSE IF copyin # OK THEN NoSubmission(S, copyin)
    ELSE LET m == boottrace_parse_message(message)
             r == dotrace([S EXCEPT !.bootdone = TRUE], "rt", m.eventname, m.tdname)
         IN [r EXCEPT !.error = SysctlError(@)]

sysctl_runtrace(S, newptr, copyin, message) ==
    IF ~newptr THEN NoSubmission(S, OK)
    ELSE IF copyin # OK THEN NoSubmission(S, copyin)
    ELSE LET m == boottrace_parse_message(message)
             r == runtrace(S, m.eventname, m.tdname)
         IN [r EXCEPT !.error = SysctlError(@)]

sysctl_shuttrace(S, newptr, copyin, message) ==
    IF ~newptr THEN NoSubmission(S, OK)
    ELSE IF copyin # OK THEN NoSubmission(S, copyin)
    ELSE LET m == boottrace_parse_message(message)
             r == shuttrace(S, m.eventname, m.tdname)
         IN [r EXCEPT !.error = SysctlError(@)]

----------------------------------------------------------------------------
(* boottrace_init *)

\* static struct bt bt, rt, st: zeroed until boottrace_init runs
StaticTables == [t \in TableIds |-> ZeroBt]

\* the assignments of boottrace_init to the three tables T; tunable is the value of
\* "boottrace-table-size" (the default size when unset), runsize and shtsize the sizes of
\* rt and st
InitTables(T, tunable, runsize, shtsize) ==
    LET btsize == Max(tunable, MinBootSize) IN
    [bt |-> [T["bt"] EXCEPT !.size = btsize,
                            !.table = [ZeroTable(btsize) EXCEPT
                                         ![1] = Event(0, "initial event", "boottime")],
                            !.curr = 1],
     rt |-> [T["rt"] EXCEPT !.wrap = 1, !.size = runsize, !.table = ZeroTable(runsize)],
     st |-> [T["st"] EXCEPT !.size = shtsize, !.table = ZeroTable(shtsize)]]

\* the three tables after boottrace_init, when nothing was submitted before it
boottrace_init(tunable, runsize, shtsize) == InitTables(StaticTables, tunable, runsize, shtsize)

----------------------------------------------------------------------------
(* State after boottrace_init (SYSINIT at SI_SUB_CPU) *)

\* event names the callers pass
Names == {"ev"}

\* a caller that is in no handler
Idle == [pc |-> "idle", op |-> "", arg |-> 0, btp |-> "none", idx |-> 0, nxt |-> 0,
         tmp |-> 0, ret |-> OK, why |-> "", slot |-> -1,
         sd0 |-> FALSE, bd0 |-> FALSE, fat0 |-> FALSE]

\* history: no call completed yet
NoCall == [n |-> 0, by |-> 0, op |-> "", arg |-> 0, tbl |-> "none", idx |-> -1, ret |-> OK, why |-> "",
           sd0 |-> FALSE, bd0 |-> FALSE, fat0 |-> FALSE]

NoCount == [sub |-> 0, ok |-> 0, full |-> 0, early |-> 0]

\* the state after boottrace_init with the table sizes drawn from the given sets and the
\* cycle counter at c
InitAt(Tunables, RunSizes, ShutSizes, c) ==
    /\ \E tunable \in Tunables, runsize \in RunSizes, shtsize \in ShutSizes :
           tbl = boottrace_init(tunable, runsize, shtsize)
    /\ bootdone = FALSE
    /\ shutdown = FALSE
    /\ fatal = FALSE
    /\ cyc = c
    /\ th = [t \in Threads |-> Idle]
    /\ ncalls = 0
    /\ last = NoCall
    /\ cnt = [t \in TableIds |-> NoCount]
    /\ allocs = [t \in TableIds |-> <<>>]
    /\ fills = [t \in TableIds |-> <<>>]
    /\ out = <<>>
    /\ size0 = [t \in TableIds |-> tbl[t].size]

\* the same with the cycle counter at 1
InitWith(Tunables, RunSizes, ShutSizes) == InitAt(Tunables, RunSizes, ShutSizes, 1)

\* SeqSpec starts from every combination of table sizes within the bounds
SeqInit == InitWith(0..MaxBootSize, 1..MaxRunSize, 1..MaxShutSize)

\* Spec starts with the largest boot and shutdown tables and every run table size
Init == InitWith({MaxBootSize}, 1..MaxRunSize, {MaxShutSize})

\* the kernel state the handlers read and write
Sys == [tbl |-> tbl, bootdone |-> bootdone, shutdown |-> shutdown, fatal |-> fatal, cyc |-> cyc]

\* history of one submission routed to table t: its outcome counted
Counted(c, t, why) ==
    IF t = "none" THEN c
    ELSE [c EXCEPT ![t] = [sub   |-> @.sub + 1,
                           ok    |-> @.ok + (IF why = "" THEN 1 ELSE 0),
                           full  |-> @.full + (IF why = "full" THEN 1 ELSE 0),
                           early |-> @.early + (IF why = "early" THEN 1 ELSE 0)]]

----------------------------------------------------------------------------
(* SeqSpec: one caller, each handler in one step *)

\* caller 1 runs handler op to completion with result r
Apply(op, arg, r) ==
    /\ tbl' = r.S.tbl
    /\ bootdone' = r.S.bootdone
    /\ shutdown' = r.S.shutdown
    /\ fatal' = r.S.fatal
    /\ cyc' = r.S.cyc
    /\ ncalls' = ncalls + 1
    /\ last' = [n |-> ncalls + 1, by |-> 1, op |-> op, arg |-> arg, tbl |-> r.t,
                idx |-> r.idx, ret |-> r.error, why |-> r.why,
                sd0 |-> shutdown, bd0 |-> bootdone, fat0 |-> fatal]
    /\ cnt' = Counted(cnt, r.t, r.why)
    /\ allocs' = IF r.idx >= 0 THEN [allocs EXCEPT ![r.t] = Append(@, r.idx)] ELSE allocs
    /\ fills' = IF r.idx >= 0 THEN [fills EXCEPT ![r.t] = Append(@, r.S.cyc - 1)] ELSE fills
    /\ out' = <<>>
    /\ UNCHANGED <<th, size0>>

\* one of the MaxSeqCalls calls of SeqSpec
SeqApply(op, arg, r) == ncalls < MaxSeqCalls /\ Apply(op, arg, r)

\* caller 1 runs a render handler that prints o
Render(op, arg, o) ==
    /\ ncalls' = ncalls + 1
    /\ out' = o
    /\ last' = [NoCall EXCEPT !.n = ncalls + 1, !.by = 1, !.op = op, !.arg = arg,
                              !.sd0 = shutdown, !.bd0 = bootdone, !.fat0 = fatal]
    /\ UNCHANGED <<tbl, bootdone, shutdown, fatal, cyc, th, cnt, allocs, fills, size0>>

\* one of the MaxSeqCalls calls of SeqSpec
SeqRender(op, arg, o) == ncalls < MaxSeqCalls /\ Render(op, arg, o)

SeqBoottrace == \E name \in Names : SeqApply("boottrace", 0, boottrace(Sys, name, CurName))

SeqRuntrace == \E name \in Names : SeqApply("runtrace", 0, runtrace(Sys, name, CurName))

SeqShuttrace == \E name \in Names : SeqApply("shuttrace", 0, shuttrace(Sys, name, CurName))

SeqReset == SeqApply("boottrace_reset", 0, boottrace_reset(Sys, "sysctl_boottrace_reset"))

SeqResize ==
    \E newsize \in 1..MaxNewSize, allocok \in BOOLEAN :
        SeqApply("boottrace_resize", newsize, boottrace_resize(Sys, newsize, allocok))

SeqRead == SeqRender("sysctl_boottrace_read", 0, sysctl_boottrace_read(Sys))

SeqDump ==
    \E shutdown_trace \in 0..1, threshold \in 0..MaxThreshold :
        SeqRender("boottrace_dump_console",
                  [shutdown_trace |-> shutdown_trace, threshold |-> threshold],
                  boottrace_dump_console(Sys, shutdown_trace, threshold))

\* the kernel starts rebooting or panics: rebooting or panicstr becomes set
SeqFatal ==
    /\ ~fatal
    /\ fatal' = TRUE
    /\ UNCHANGED <<tbl, bootdone, shutdown, cyc, th, ncalls, last, cnt, allocs, fills, out, size0>>

SeqNext ==
    \/ SeqBoottrace
    \/ SeqRuntrace
    \/ SeqShuttrace
    \/ SeqReset
    \/ SeqResize
    \/ SeqRead
    \/ SeqDump
    \/ SeqFatal

SeqSpec == SeqInit /\ [][SeqNext]_vars

----------------------------------------------------------------------------
(* Spec: concurrent callers, one step per shared-memory access *)

\* caller t's call returns to its caller: history updated, t idle again
Complete(t, ret, why, slot) ==
    /\ last' = [n |-> 0, by |-> t, op |-> th[t].op, arg |-> th[t].arg,
                tbl |-> th[t].btp, idx |-> slot, ret |-> ret, why |-> why,
                sd0 |-> th[t].sd0, bd0 |-> th[t].bd0, fat0 |-> th[t].fat0]
    /\ cnt' = Counted(cnt, th[t].btp, why)
    /\ th' = [th EXCEPT ![t] = Idle]

\* dotrace returns error to boottrace or shuttrace, which return it; runtrace (also under
\* boottrace_reset and boottrace_resize) still has bootdone = true to do
DotraceReturn(t, ret, why, slot) ==
    IF th[t].op \in {"boottrace", "shuttrace"}
    THEN Complete(t, ret, why, slot)
    ELSE /\ th' = [th EXCEPT ![t].pc = "rt_done", ![t].ret = ret, ![t].why = why,
                             ![t].slot = slot]
         /\ UNCHANGED <<last, cnt>>

\* t enters a handler: the latches at that moment are remembered
Enter(t, op, arg, pc, btp) ==
    [Idle EXCEPT !.pc = pc, !.op = op, !.arg = arg, !.btp = btp, !.sd0 = shutdown, !.bd0 = bootdone, !.fat0 = fatal]

\* boottrace(), called directly or from runtrace (sysctl_runtrace, boottrace_reset):
\* trace = &bt; if (bootdone) trace = &rt;
CallTraceOps(t, Ops, maxcalls) ==
    /\ th[t].pc = "idle"
    /\ ncalls < maxcalls
    /\ \E op \in Ops :
          th' = [th EXCEPT ![t] = Enter(t, op, 0, "bt_shut", RouteBoot(bootdone))]
    /\ ncalls' = ncalls + 1
    /\ UNCHANGED <<tbl, bootdone, shutdown, fatal, cyc, last, cnt, allocs, fills, out, size0>>

CallTrace(t) == CallTraceOps(t, {"boottrace", "runtrace", "boottrace_reset"}, MaxCalls)

\* boottrace() under boottrace_resize: trace = &bt; if (bootdone) trace = &rt;
\* (the latches remembered are those at the start of this submission)
BtBoot(t) ==
    /\ th[t].pc = "bt_boot"
    /\ th' = [th EXCEPT ![t].pc = "bt_shut", ![t].btp = RouteBoot(bootdone),
                        ![t].sd0 = shutdown, ![t].bd0 = bootdone, ![t].fat0 = fatal]
    /\ UNCHANGED <<tbl, bootdone, shutdown, fatal, cyc, ncalls, last, cnt, allocs, fills, out,
                   size0>>

\* if (shutdown || rebooting || panicstr) trace = &st; then dotrace(trace, ...)
BtShut(t) ==
    /\ th[t].pc = "bt_shut"
    /\ th' = [th EXCEPT ![t].pc = "dt_null",
                        ![t].btp = RouteShut(th[t].btp, shutdown, fatal)]
    /\ UNCHANGED <<tbl, bootdone, shutdown, fatal, cyc, ncalls, last, cnt, allocs, fills, out,
                   size0>>

\* shuttrace(): shutdown = true; then dotrace(&st, ...)
CallShuttraceUpTo(t, maxcalls) ==
    /\ th[t].pc = "idle"
    /\ ncalls < maxcalls
    /\ th' = [th EXCEPT ![t] = Enter(t, "shuttrace", 0, "dt_null", "st")]
    /\ shutdown' = TRUE
    /\ ncalls' = ncalls + 1
    /\ UNCHANGED <<tbl, bootdone, fatal, cyc, last, cnt, allocs, fills, out, size0>>

CallShuttrace(t) == CallShuttraceUpTo(t, MaxCalls)

\* dotrace: btp->table == NULL, then the load of btp->drops_early++
DtEarly(t) ==
    /\ th[t].pc = "dt_null"
    /\ tbl[th[t].btp].table = NULL
    /\ th' = [th EXCEPT ![t].pc = "de_wr", ![t].tmp = tbl[th[t].btp].drops_early]
    /\ UNCHANGED <<tbl, bootdone, shutdown, fatal, cyc, ncalls, last, cnt, allocs, fills, out,
                   size0>>

\* dotrace: the store of btp->drops_early++; return (ENOSPC)
DeWrite(t) ==
    /\ th[t].pc = "de_wr"
    /\ tbl' = [tbl EXCEPT ![th[t].btp].drops_early = th[t].tmp + 1]
    /\ DotraceReturn(t, "ENOSPC", "early", -1)
    /\ UNCHANGED <<bootdone, shutdown, fatal, cyc, ncalls, allocs, fills, out, size0>>

\* dotrace: idx = btp->curr; nxt = (idx + 1) % btp->size; on the first pass after the
\* btp->table != NULL test; when the table is full, the load of btp->drops_full++
DtRead(t) ==
    /\ \/ th[t].pc = "dt_null" /\ tbl[th[t].btp].table # NULL
       \/ th[t].pc = "dt_read"
    /\ LET b   == tbl[th[t].btp]
           idx == b.curr
           nxt == NextIdx(idx, b.size)
       IN th' = [th EXCEPT ![t].idx = idx, ![t].nxt = nxt,
                           ![t].pc = IF TableFull(nxt, b.wrap) THEN "df_wr" ELSE "dt_cas",
                           ![t].tmp = b.drops_full]
    /\ UNCHANGED <<tbl, bootdone, shutdown, fatal, cyc, ncalls, last, cnt, allocs, fills, out,
                   size0>>

\* faulty variant of DfWrite: the drop also takes the cursor back to slot 0
DfWriteRewinds(t) ==
    /\ th[t].pc = "df_wr"
    /\ tbl' = [tbl EXCEPT ![th[t].btp].drops_full = th[t].tmp + 1, ![th[t].btp].curr = 0]
    /\ DotraceReturn(t, "ENOSPC", "full", -1)
    /\ UNCHANGED <<bootdone, shutdown, fatal, cyc, ncalls, allocs, fills, out, size0>>

\* dotrace: the store of btp->drops_full++; return (ENOSPC)
DfWrite(t) ==
    /\ th[t].pc = "df_wr"
    /\ tbl' = [tbl EXCEPT ![th[t].btp].drops_full = th[t].tmp + 1]
    /\ DotraceReturn(t, "ENOSPC", "full", -1)
    /\ UNCHANGED <<bootdone, shutdown, fatal, cyc, ncalls, allocs, fills, out, size0>>

\* atomic_cmpset_int(&btp->curr, idx, nxt) succeeds: t has slot idx
DtCasOk(t) ==
    /\ th[t].pc = "dt_cas"
    /\ CmpsetSucceeds(tbl[th[t].btp].curr, th[t].idx)
    /\ tbl' = [tbl EXCEPT ![th[t].btp].curr = th[t].nxt]
    /\ allocs' = [allocs EXCEPT ![th[t].btp] = Append(@, th[t].idx)]
    /\ th' = [th EXCEPT ![t].pc = "dt_fill"]
    /\ UNCHANGED <<bootdone, shutdown, fatal, cyc, ncalls, last, cnt, fills, out, size0>>

\* atomic_cmpset_int fails: the cursor moved since it was read; the loop runs again
DtCasFail(t) ==
    /\ th[t].pc = "dt_cas"
    /\ ~CmpsetSucceeds(tbl[th[t].btp].curr, th[t].idx)
    /\ th' = [th EXCEPT ![t].pc = "dt_read"]
    /\ UNCHANGED <<tbl, bootdone, shutdown, fatal, cyc, ncalls, last, cnt, allocs, fills, out,
                   size0>>

\* dotrace: the writes to btp->table[idx]; return (0)
DtFill(t) ==
    /\ th[t].pc = "dt_fill"
    /\ tbl[th[t].btp].table # NULL
    /\ tbl' = [tbl EXCEPT ![th[t].btp].table =
                 FillSlot(@, th[t].idx,
                          Event(cyc, IF th[t].op = "boottrace_resize"
                                     THEN "reset: boottrace_resize"
                                     ELSE IF th[t].op = "boottrace_reset"
                                     THEN "reset: sysctl_boottrace_reset" ELSE "ev",
                                CurName))]
    /\ cyc' = cyc + 1
    /\ fills' = [fills EXCEPT ![th[t].btp] = Append(@, cyc)]
    /\ DotraceReturn(t, OK, "", th[t].idx)
    /\ UNCHANGED <<bootdone, shutdown, fatal, ncalls, allocs, out, size0>>

\* dotrace: the writes to btp->table[idx] after a failed boottrace_resize stored NULL in
\* rt.table: a NULL dereference, the kernel panics
DtFillFault(t) ==
    /\ th[t].pc = "dt_fill"
    /\ tbl[th[t].btp].table = NULL
    /\ th' = [th EXCEPT ![t].pc = "fault"]
    /\ fatal' = TRUE
    /\ UNCHANGED <<tbl, bootdone, shutdown, cyc, ncalls, last, cnt, allocs, fills, out, size0>>

\* runtrace: bootdone = true; return (error); boottrace_resize then returns 0
RtDone(t) ==
    /\ th[t].pc = "rt_done"
    /\ bootdone' = TRUE
    /\ Complete(t, IF th[t].op = "boottrace_resize" THEN OK ELSE th[t].ret,
                th[t].why, th[t].slot)
    /\ UNCHANGED <<tbl, shutdown, fatal, cyc, ncalls, allocs, fills, out, size0>>

\* boottrace_resize(newsize): if (newsize <= rt.size) return (EINVAL);
CallResizeUpTo(t, maxcalls) ==
    /\ th[t].pc = "idle"
    /\ ncalls < maxcalls
    /\ ncalls' = ncalls + 1
    /\ \E newsize \in 1..MaxNewSize :
          IF ResizeRejected(newsize, tbl["rt"].size)
          THEN /\ last' = [NoCall EXCEPT !.by = t, !.op = "boottrace_resize",
                                         !.arg = newsize, !.ret = "EINVAL",
                                         !.sd0 = shutdown, !.bd0 = bootdone, !.fat0 = fatal]
               /\ UNCHANGED th
          ELSE /\ th' = [th EXCEPT ![t] = Enter(t, "boottrace_resize", newsize,
                                                 "rs_realloc", "none")]
               /\ UNCHANGED last
    /\ UNCHANGED <<tbl, bootdone, shutdown, fatal, cyc, cnt, allocs, fills, out, size0>>

CallResize(t) == CallResizeUpTo(t, MaxCalls)

\* rt.table = realloc(...); if (rt.table == NULL) return (ENOMEM); the allocation
\* succeeds when allocok
RsReallocWith(t, allocok) ==
    /\ th[t].pc = "rs_realloc"
    /\ LET p == ReallocResult(tbl["rt"].table, th[t].arg, allocok) IN
          /\ tbl' = [tbl EXCEPT !["rt"].table = p]
          /\ IF p = NULL
             THEN Complete(t, "ENOMEM", "", -1)
             ELSE /\ th' = [th EXCEPT ![t].pc = "rs_size"]
                  /\ UNCHANGED <<last, cnt>>
    /\ UNCHANGED <<bootdone, shutdown, fatal, cyc, ncalls, allocs, fills, out, size0>>

RsRealloc(t) == \E allocok \in BOOLEAN : RsReallocWith(t, allocok)

\* rt.size = newsize; then boottrace_reset("boottrace_resize")
RsSize(t) ==
    /\ th[t].pc = "rs_size"
    /\ tbl' = [tbl EXCEPT !["rt"] = ResizeUpdate(@, th[t].arg)]
    /\ th' = [th EXCEPT ![t].pc = "bt_boot"]
    /\ UNCHANGED <<bootdone, shutdown, fatal, cyc, ncalls, last, cnt, allocs, fills, out,
                   size0>>

\* the kernel starts rebooting or panics: rebooting or panicstr becomes set
SetFatal ==
    /\ ~fatal
    /\ fatal' = TRUE
    /\ UNCHANGED <<tbl, bootdone, shutdown, cyc, th, ncalls, last, cnt, allocs, fills, out,
                   size0>>

Next ==
    \/ \E t \in Threads : CallTrace(t)
    \/ \E t \in Threads : BtBoot(t)
    \/ \E t \in Threads : BtShut(t)
    \/ \E t \in Threads : CallShuttrace(t)
    \/ \E t \in Threads : DtEarly(t)
    \/ \E t \in Threads : DeWrite(t)
    \/ \E t \in Threads : DtRead(t)
    \/ \E t \in Threads : DfWrite(t)
    \/ \E t \in Threads : DtCasOk(t)
    \/ \E t \in Threads : DtCasFail(t)
    \/ \E t \in Threads : DtFill(t)
    \/ \E t \in Threads : DtFillFault(t)
    \/ \E t \in Threads : RtDone(t)
    \/ \E t \in Threads : CallResize(t)
    \/ \E t \in Threads : RsRealloc(t)
    \/ \E t \in Threads : RsSize(t)
    \/ SetFatal

Spec == Init /\ [][Next]_vars

----------------------------------------------------------------------------
(* WrapSpec: concurrent plain submissions into the run table, once the boot is complete *)

\* the kernel state after boottrace_init and one boottrace_reset by caller 1
BootedSys(tunable, runsize, shtsize) ==
    boottrace_reset([tbl |-> boottrace_init(tunable, runsize, shtsize), bootdone |-> FALSE,
                     shutdown |-> FALSE, fatal |-> FALSE, cyc |-> 1],
                    "sysctl_boottrace_reset")

\* the state SeqSpec is in after its first step, when that step is boottrace_reset, with
\* the run table size drawn from RunSizes
BootedInit(RunSizes) ==
    \E runsize \in RunSizes :
       LET r == BootedSys(MaxBootSize, runsize, MaxShutSize) IN
       /\ tbl = r.S.tbl
       /\ bootdone = r.S.bootdone
       /\ shutdown = r.S.shutdown
       /\ fatal = r.S.fatal
       /\ cyc = r.S.cyc
       /\ th = [t \in Threads |-> Idle]
       /\ ncalls = 1
       /\ last = [NoCall EXCEPT !.n = 1, !.by = 1, !.op = "boottrace_reset", !.tbl = r.t,
                                !.idx = r.idx, !.ret = r.error, !.why = r.why]
       /\ cnt = Counted([t \in TableIds |-> NoCount], r.t, r.why)
       /\ allocs = [t \in TableIds |-> IF t = r.t /\ r.idx >= 0 THEN <<r.idx>> ELSE <<>>]
       /\ fills = [t \in TableIds |-> IF t = r.t /\ r.idx >= 0 THEN <<1>> ELSE <<>>]
       /\ out = <<>>
       /\ size0 = [t \in TableIds |-> tbl[t].size]

\* WrapSpec starts with the boot complete and a run table of two slots or more
WrapInit == BootedInit(2..MaxRunSize)

\* a plain boottrace() call; MaxWrapCalls of them after the reset
WrapCall(t) == CallTraceOps(t, {"boottrace"}, MaxWrapCalls + 1)

WrapNext ==
    \/ \E t \in Threads : WrapCall(t)
    \/ \E t \in Threads : BtShut(t)
    \/ \E t \in Threads : DtRead(t)
    \/ \E t \in Threads : DtCasOk(t)
    \/ \E t \in Threads : DtCasFail(t)
    \/ \E t \in Threads : DtFill(t)

WrapSpec == WrapInit /\ [][WrapNext]_vars

----------------------------------------------------------------------------
(* ResizeSpec: concurrent resizes and plain submissions, once the boot is complete *)

\* ResizeSpec starts with the boot complete and a run table of one slot
ResizeInit == BootedInit({1})

\* boottrace_resize(newsize) by caller t
ResizeCall(t) == CallResizeUpTo(t, MaxResizeCalls + 1)

\* a plain boottrace() call by caller t
ResizeTrace(t) == CallTraceOps(t, {"boottrace"}, MaxResizeCalls + 1)

ResizeNext ==
    \/ \E t \in Threads : ResizeCall(t)
    \/ \E t \in Threads : ResizeTrace(t)
    \/ \E t \in Threads : RsRealloc(t)
    \/ \E t \in Threads : RsSize(t)
    \/ \E t \in Threads : BtBoot(t)
    \/ \E t \in Threads : BtShut(t)
    \/ \E t \in Threads : DtEarly(t)
    \/ \E t \in Threads : DeWrite(t)
    \/ \E t \in Threads : DtRead(t)
    \/ \E t \in Threads : DfWrite(t)
    \/ \E t \in Threads : DtCasOk(t)
    \/ \E t \in Threads : DtCasFail(t)
    \/ \E t \in Threads : DtFill(t)
    \/ \E t \in Threads : DtFillFault(t)
    \/ \E t \in Threads : RtDone(t)

ResizeSpec == ResizeInit /\ [][ResizeNext]_vars

----------------------------------------------------------------------------
(* EarlySpec: submissions made before and after boottrace_init runs (SYSINIT, SI_SUB_CPU) *)

\* the kernel before boottrace_init: the three tables are zeroed statics without storage
EarlyInit ==
    /\ tbl = StaticTables
    /\ bootdone = FALSE
    /\ shutdown = FALSE
    /\ fatal = FALSE
    /\ cyc = 1
    /\ th = [t \in Threads |-> Idle]
    /\ ncalls = 0
    /\ last = NoCall
    /\ cnt = [t \in TableIds |-> NoCount]
    /\ allocs = [t \in TableIds |-> <<>>]
    /\ fills = [t \in TableIds |-> <<>>]
    /\ out = <<>>
    /\ size0 = [t \in TableIds |-> 0]

\* boottrace() from kernel code
EarlyBoottrace ==
    /\ ncalls < MaxEarlyCalls
    /\ \E name \in Names : Apply("boottrace", 0, boottrace(Sys, name, CurName))

\* shuttrace() from kernel code
EarlyShuttrace ==
    /\ ncalls < MaxEarlyCalls
    /\ \E name \in Names : Apply("shuttrace", 0, shuttrace(Sys, name, CurName))

\* boottrace_init() runs, once
EarlySysinit ==
    /\ \A t \in TableIds : size0[t] = 0
    /\ \E tunable \in 0..MaxBootSize, runsize \in 1..MaxRunSize, shtsize \in 1..MaxShutSize :
          tbl' = InitTables(tbl, tunable, runsize, shtsize)
    /\ size0' = [t \in TableIds |-> tbl'[t].size]
    /\ UNCHANGED <<bootdone, shutdown, fatal, cyc, th, ncalls, last, cnt, allocs, fills, out>>

EarlyNext ==
    \/ EarlyBoottrace
    \/ EarlyShuttrace
    \/ EarlySysinit

EarlySpec == EarlyInit /\ [][EarlyNext]_vars

----------------------------------------------------------------------------
(* DisplaySpec: shutdown events some cycles apart, then the console dump with a threshold *)

\* cycles that pass between two calls
DispGaps == {0, 3, 9, 99, 199}

\* values of the sysctl kern.boottrace.shutdown_trace_threshold (ms)
DispThresholds == {0, 2, 40}

DispInit == InitAt({MaxBootSize}, {1}, {DispShutSize}, FirstCyc)

\* shuttrace() by caller 1, gap cycles after the call before
DispShuttrace ==
    /\ ncalls < MaxDispCalls
    /\ \E gap \in DispGaps, name \in Names :
          Apply("shuttrace", gap, shuttrace([Sys EXCEPT !.cyc = @ + gap], name, CurName))

\* boottrace_dump_console() with shutdown_trace = 1 and the threshold set by sysctl
DispDump ==
    /\ ncalls < MaxDispCalls
    /\ \E threshold \in DispThresholds :
          Render("boottrace_dump_console", threshold,
                 boottrace_dump_console(Sys, 1, threshold))

DispNext ==
    \/ DispShuttrace
    \/ DispDump

DisplaySpec == DispInit /\ [][DispNext]_vars

----------------------------------------------------------------------------
(* UptimeSpec: shutdown events after a long uptime, then the console dump *)

\* cycles that pass before an event: none, or a long time of running
UptimeGaps == {0, 8000, 17000}

\* shuttrace() once gap more cycles have passed
UptimeShuttrace ==
    /\ ncalls < MaxUptimeCalls
    /\ \E gap \in UptimeGaps, name \in Names :
          Apply("shuttrace", gap, shuttrace([Sys EXCEPT !.cyc = @ + gap], name, CurName))

\* boottrace_dump_console() with shutdown_trace = 1 and no threshold
UptimeDump ==
    /\ ncalls < MaxUptimeCalls
    /\ Render("boottrace_dump_console", 0, boottrace_dump_console(Sys, 1, 0))

UptimeNext ==
    \/ UptimeShuttrace
    \/ UptimeDump

UptimeSpec == DispInit /\ [][UptimeNext]_vars

----------------------------------------------------------------------------
(* RaceSpec: concurrent shuttrace calls while time passes, then the console dump *)

\* shuttrace() by caller t
RaceCall(t) == CallShuttraceUpTo(t, MaxRaceCalls)

\* a millisecond passes: the cycle counter advances by tsc_freq / 1000 cycles
RaceTick ==
    /\ cyc + (tsc_freq \div 1000) <= FirstCyc + MaxRaceCalls + MaxRaceTicks * (tsc_freq \div 1000)
    /\ cyc' = cyc + (tsc_freq \div 1000)
    /\ UNCHANGED <<tbl, bootdone, shutdown, fatal, th, ncalls, last, cnt, allocs, fills, out,
                   size0>>

\* boottrace_dump_console() with shutdown_trace = 1, while no caller is inside dotrace
RaceDump ==
    /\ \A t \in Threads : th[t].pc = "idle"
    /\ ncalls <= MaxRaceCalls
    /\ \E threshold \in DispThresholds :
          Render("boottrace_dump_console", threshold,
                 boottrace_dump_console(Sys, 1, threshold))

RaceNext ==
    \/ \E t \in Threads : RaceCall(t)
    \/ \E t \in Threads : DtRead(t)
    \/ \E t \in Threads : DtCasOk(t)
    \/ \E t \in Threads : DtCasFail(t)
    \/ \E t \in Threads : DtFill(t)
    \/ RaceTick
    \/ RaceDump

RaceSpec == DispInit /\ [][RaceNext]_vars

----------------------------------------------------------------------------
(* DropSpec: concurrent plain submissions into the boot table until it is full *)

\* DropSpec starts with the largest boot table, the boot not complete
DropInit == InitWith({MaxBootSize}, {1}, {MaxShutSize})

\* a plain boottrace() call by caller t
DropCall(t) == CallTraceOps(t, {"boottrace"}, MaxDropCalls)

\* one step of caller t inside boottrace()
DropStep(t) ==
    \/ BtShut(t)
    \/ DtRead(t)
    \/ DfWrite(t)
    \/ DtCasOk(t)
    \/ DtCasFail(t)
    \/ DtFill(t)

DropNext ==
    \/ \E t \in Threads : DropCall(t)
    \/ \E t \in Threads : BtShut(t)
    \/ \E t \in Threads : DtRead(t)
    \/ \E t \in Threads : DfWrite(t)
    \/ \E t \in Threads : DtCasOk(t)
    \/ \E t \in Threads : DtCasFail(t)
    \/ \E t \in Threads : DtFill(t)

DropSpec == DropInit /\ [][DropNext]_vars

\* every caller that is inside boottrace() keeps executing: the CPU it runs on goes on to
\* its next instruction whatever the other callers do
FairDropSpec == DropSpec /\ \A t \in Threads : WF_vars(DropStep(t))

----------------------------------------------------------------------------
(* WalkSpec: sysctl_boottrace reads, one step per shared-memory access of the walk,  *)
(* among concurrent submissions and resizes, once the boot is complete             *)

\* the positions of a caller inside boottrace_display
InDisplay == {"bd_start", "bd_read", "bd_next"}

\* WalkSpec starts with the boot complete and the largest run table
WalkInit == BootedInit({MaxRunSize})

\* sysctl_boottrace without a new value: boottrace_display(sbuf, &bt, 0) comes first
WalkCall(t) ==
    /\ th[t].pc = "idle"
    /\ ncalls < MaxWalkCalls + 1
    /\ ncalls' = ncalls + 1
    /\ th' = [th EXCEPT ![t] = [Enter(t, "sysctl_boottrace_read", 0, "bd_start", "bt")
                                   EXCEPT !.tmp = [done |-> <<>>, s |-> WalkStart]]]
    /\ UNCHANGED <<tbl, bootdone, shutdown, fatal, cyc, last, cnt, allocs, fills, out, size0>>

\* boottrace_display: i = curr = btp->curr, the other locals zeroed
BdStart(t) ==
    /\ th[t].pc = "bd_start"
    /\ th' = [th EXCEPT ![t].pc = "bd_read",
                        ![t].idx = WalkFrom(tbl[th[t].btp]),
                        ![t].nxt = tbl[th[t].btp].curr,
                        ![t].tmp.s = WalkStart]
    /\ UNCHANGED <<tbl, bootdone, shutdown, fatal, cyc, ncalls, last, cnt, allocs, fills, out,
                   size0>>

\* boottrace_display: evtp = &btp->table[i] and the body of the loop for that slot
BdRead(t) ==
    /\ th[t].pc = "bd_read"
    /\ tbl[th[t].btp].table # NULL
    /\ th[t].idx < Len(tbl[th[t].btp].table)
    /\ th' = [th EXCEPT ![t].pc = "bd_next",
                        ![t].tmp.s = VisitSlot(tbl[th[t].btp].table[th[t].idx + 1],
                                               th[t].idx, th[t].arg, @)]
    /\ UNCHANGED <<tbl, bootdone, shutdown, fatal, cyc, ncalls, last, cnt, allocs, fills, out,
                   size0>>

\* boottrace_display: i = (i + 1) % btp->size; while (i != curr); after the walk the
\* footer, then the run table after the boot table, then the handler returns 0
BdNext(t) ==
    /\ th[t].pc = "bd_next"
    /\ LET ni   == WalkNext(th[t].idx, tbl[th[t].btp].size)
           done == Append(th[t].tmp.done, Displayed(th[t].btp, th[t].arg, th[t].tmp.s))
       IN IF ni # th[t].nxt
          THEN /\ th' = [th EXCEPT ![t].pc = "bd_read", ![t].idx = ni]
               /\ UNCHANGED <<last, out>>
          ELSE IF th[t].btp = "bt"
          THEN /\ th' = [th EXCEPT ![t].pc = "bd_start", ![t].btp = "rt", ![t].tmp.done = done]
               /\ UNCHANGED <<last, out>>
          ELSE /\ th' = [th EXCEPT ![t] = Idle]
               /\ out' = done
               /\ last' = [NoCall EXCEPT !.by = t, !.op = th[t].op, !.sd0 = th[t].sd0,
                                         !.bd0 = th[t].bd0, !.fat0 = th[t].fat0]
    /\ UNCHANGED <<tbl, bootdone, shutdown, fatal, cyc, ncalls, cnt, allocs, fills, size0>>

\* a plain boottrace() call by caller t
WalkTrace(t) == CallTraceOps(t, {"boottrace"}, MaxWalkCalls + 1)

\* boottrace_resize(newsize) by caller t, while no other caller is inside boottrace_resize
WalkResize(t) ==
    /\ \A u \in Threads : th[u].op # "boottrace_resize"
    /\ CallResizeUpTo(t, MaxWalkCalls + 1)

\* realloc(..., M_WAITOK | M_ZERO) returns the storage asked for
WalkRealloc(t) == RsReallocWith(t, TRUE)

\* one step of caller t inside a handler
WalkStep(t) ==
    \/ BdStart(t)
    \/ BdRead(t)
    \/ BdNext(t)
    \/ BtBoot(t)
    \/ BtShut(t)
    \/ DtRead(t)
    \/ DtCasOk(t)
    \/ DtCasFail(t)
    \/ DtFill(t)
    \/ RtDone(t)
    \/ WalkRealloc(t)
    \/ RsSize(t)

WalkSpecNext ==
    \/ \E t \in Threads : WalkCall(t)
    \/ \E t \in Threads : WalkTrace(t)
    \/ \E t \in Threads : WalkResize(t)
    \/ \E t \in Threads : BdStart(t)
    \/ \E t \in Threads : BdRead(t)
    \/ \E t \in Threads : BdNext(t)
    \/ \E t \in Threads : BtBoot(t)
    \/ \E t \in Threads : BtShut(t)
    \/ \E t \in Threads : DtRead(t)
    \/ \E t \in Threads : DtCasOk(t)
    \/ \E t \in Threads : DtCasFail(t)
    \/ \E t \in Threads : DtFill(t)
    \/ \E t \in Threads : RtDone(t)
    \/ \E t \in Threads : WalkRealloc(t)
    \/ \E t \in Threads : RsSize(t)

WalkSpec == WalkInit /\ [][WalkSpecNext]_vars

\* every caller that is inside a handler keeps executing
FairWalkSpec == WalkSpec /\ \A t \in Threads : WF_vars(WalkStep(t))

----------------------------------------------------------------------------
(* FullSpec: concurrent submissions into the boot and shutdown tables until they are full *)

\* FullSpec starts with boot and shutdown tables of one or two free slots
FullInit == InitWith({MaxBootSize, MaxBootSize + 1}, {1}, {MaxShutSize, MaxShutSize + 1})

\* a plain boottrace() call by caller t
FullTrace(t) == CallTraceOps(t, {"boottrace"}, MaxFullCalls)

\* shuttrace() by caller t
FullShuttrace(t) == CallShuttraceUpTo(t, MaxFullCalls)

FullNext ==
    \/ \E t \in Threads : FullTrace(t)
    \/ \E t \in Threads : FullShuttrace(t)
    \/ \E t \in Threads : BtShut(t)
    \/ \E t \in Threads : DtRead(t)
    \/ \E t \in Threads : DfWrite(t)
    \/ \E t \in Threads : DtCasOk(t)
    \/ \E t \in Threads : DtCasFail(t)
    \/ \E t \in Threads : DtFill(t)

FullSpec == FullInit /\ [][FullNext]_vars

----------------------------------------------------------------------------
(* SysctlSpec: one caller, the sysctl endpoints and the kernel entry points *)

\* the strings written to the endpoints
Messages == {<<"ev">>, <<"td", ":", "ev">>}

\* the smallest boot table, a one-slot run table, the largest shutdown table
SysctlInit == InitWith({0}, {1}, {MaxShutSize})

\* one of the MaxSysctlCalls calls of SysctlSpec
SysctlApply(op, arg, r) == ncalls < MaxSysctlCalls /\ Apply(op, arg, r)

\* the request: newptr set for a write, copyin the result of sysctl_handle_string
Req(newptr, copyin) == [newptr |-> newptr, copyin |-> copyin]

SysctlBoottrace ==
    \/ /\ ncalls < MaxSysctlCalls
       /\ Render("sysctl_boottrace", Req(FALSE, OK), sysctl_boottrace_read(Sys))
    \/ \E copyin \in {OK, "EINVAL"}, message \in Messages :
           SysctlApply("sysctl_boottrace", Req(TRUE, copyin),
                       sysctl_boottrace_write(Sys, copyin, message))

SysctlRuntrace ==
    \E newptr \in BOOLEAN, copyin \in {OK, "EINVAL"}, message \in Messages :
        SysctlApply("sysctl_runtrace", Req(newptr, copyin),
                    sysctl_runtrace(Sys, newptr, copyin, message))

SysctlShuttrace ==
    \E newptr \in BOOLEAN, copyin \in {OK, "EINVAL"}, message \in Messages :
        SysctlApply("sysctl_shuttrace", Req(newptr, copyin),
                    sysctl_shuttrace(Sys, newptr, copyin, message))

\* boottrace() called from the kernel
KernBoottrace == \E name \in Names : SysctlApply("boottrace", 0, boottrace(Sys, name, CurName))

\* shuttrace() called from the kernel
KernShuttrace == \E name \in Names : SysctlApply("shuttrace", 0, shuttrace(Sys, name, CurName))

KernResize ==
    \E allocok \in BOOLEAN :
        SysctlApply("boottrace_resize", MaxNewSize, boottrace_resize(Sys, MaxNewSize, allocok))

SysctlNext ==
    \/ SysctlBoottrace
    \/ SysctlRuntrace
    \/ SysctlShuttrace
    \/ KernBoottrace
    \/ KernShuttrace
    \/ KernResize
    \/ SeqFatal

SysctlSpec == SysctlInit /\ [][SysctlNext]_vars

----------------------------------------------------------------------------
(* Properties of the sequential specification SeqSpec *)

\* the step completes a submission that dotrace ran against table t
SubmittedTo(t) == cnt'[t].sub = cnt[t].sub + 1

\* the storage of rt is the one boottrace_init allocated: no resize got past its size test
RtAsCreated == Len(tbl["rt"].table) = size0["rt"]

\* C1 as stated: the first C sequential submissions into the empty non-wrapping shutdown
\* table of capacity C all succeed, and only the ones after them are dropped.
C1_Original ==
    /\ cnt["st"].sub <= tbl["st"].size => cnt["st"].ok = cnt["st"].sub
    /\ cnt["st"].sub > tbl["st"].size => cnt["st"].ok = tbl["st"].size

\* C1 (amended): of the sequential submissions into the empty non-wrapping shutdown table
\* of capacity C, the first C-1 succeed and take slots 0 .. C-2 in order; the C-th and every
\* later one returns ENOSPC (table full), is counted in drops_full, and leaves every slot
\* and the cursor unchanged.
C1_FullOneSlotEarly ==
    [][SubmittedTo("st") =>
         IF cnt["st"].sub < tbl["st"].size - 1
         THEN /\ last'.why = ""
              /\ last'.idx = cnt["st"].sub
              /\ last'.op # "boottrace_resize" => last'.ret = OK
              /\ tbl'["st"].curr = tbl["st"].curr + 1
         ELSE /\ last'.why = "full"
              /\ last'.op # "boottrace_resize" => last'.ret = "ENOSPC"
              /\ tbl'["st"].table = tbl["st"].table
              /\ tbl'["st"].curr = tbl["st"].curr
              /\ tbl'["st"].drops_full = tbl["st"].drops_full + 1]_vars

\* C1 witness: a shutdown table of capacity 2 or more took C-1 events and then dropped one
C1_Witness ==
    /\ tbl["st"].size >= 2
    /\ cnt["st"].ok = tbl["st"].size - 1
    /\ cnt["st"].full >= 1
    /\ last.op = "shuttrace" /\ last.ret = "ENOSPC"

\* C4: after N > C sequential submissions into the wrapping run table of capacity C, as
\* boottrace_init created it, all N have succeeded and the table holds the C most recent
\* events: the oldest of them at the cursor, the others after it in submission order,
\* modulo C.
C4_WrapKeepsMostRecent ==
    LET C == tbl["rt"].size
        N == cnt["rt"].sub
    IN (RtAsCreated /\ N > C) =>
          /\ cnt["rt"].ok = N
          /\ Len(fills["rt"]) = N
          /\ \A k \in 0..(C - 1) :
                tbl["rt"].table[((tbl["rt"].curr + k) % C) + 1].tsc = fills["rt"][N - C + k + 1]

\* C4 witness: the run table of capacity 2 or more has wrapped
C4_Witness ==
    /\ RtAsCreated
    /\ tbl["rt"].size >= 2
    /\ cnt["rt"].sub > tbl["rt"].size
    /\ cnt["rt"].ok = cnt["rt"].sub

\* C6: with the shutdown latch unset and no reboot or panic in progress, a submission made
\* while bootdone is false lands in the boot table (the runtrace call that sets the latch
\* included), and one made once bootdone is true lands in the run table.
C6_BootThenRun ==
    (last.tbl # "none" /\ last.op # "shuttrace" /\ ~last.sd0 /\ ~last.fat0) =>
        last.tbl = (IF last.bd0 THEN "rt" ELSE "bt")

\* C6 witness: after events in the boot table and a runtrace call, a plain boottrace call
\* is recorded in the run table
C6_Witness ==
    /\ cnt["bt"].ok >= 1
    /\ last.op = "boottrace" /\ last.bd0 /\ ~last.sd0 /\ ~last.fat0
    /\ last.tbl = "rt" /\ last.idx = 0 /\ last.ret = OK

\* C7 as stated: when boottrace_resize returns 0 the run table has the new capacity and its
\* cursor was reset to 0, so the next event recorded in the run table (the reset event of
\* the resize itself, when it is routed there) occupies slot 0.
C7_Original ==
    (last.op = "boottrace_resize" /\ last.ret = OK) =>
        /\ tbl["rt"].size = last.arg
        /\ IF last.tbl = "rt" /\ last.idx >= 0
           THEN last.idx = 0
           ELSE tbl["rt"].curr = 0

\* C8: boottrace_resize(C2) with C2 <= rt.size returns EINVAL and changes nothing: not the
\* three tables (size, cursor, storage, drop counters), not the latches, and no event is
\* recorded.
C8_ResizeRejectedNoChange ==
    [][(last'.n # last.n /\ last'.op = "boottrace_resize"
            /\ last'.arg <= tbl["rt"].size) =>
         /\ last'.ret = "EINVAL"
         /\ UNCHANGED <<tbl, bootdone, shutdown, fatal, cnt, allocs, fills>>]_vars

\* C8 witness: a resize to exactly the current capacity of a run table that holds events
\* was rejected
C8_Witness ==
    /\ last.op = "boottrace_resize" /\ last.ret = "EINVAL"
    /\ last.arg = tbl["rt"].size
    /\ cnt["rt"].ok >= 1

\* C9 as stated: a boottrace_resize whose allocation fails returns ENOMEM and leaves the
\* run table as it was: storage, capacity, cursor and contents.
C9_Original ==
    [][(last'.n # last.n /\ last'.op = "boottrace_resize"
            /\ last'.ret = "ENOMEM") =>
         tbl'["rt"] = tbl["rt"]]_vars

\* C10 as stated: the boot table rendered right after boottrace_init shows the header, one
\* data row (the seeded "initial event") and a total of 0.
C10_Original ==
    (last.op = "sysctl_boottrace_read" /\ last.n = 1) =>
        /\ out[1].tbl = "bt"
        /\ out[1].header
        /\ Len(out[1].rows) = 1
        /\ out[1].rows[1].name = "initial event"
        /\ out[1].total = 0

----------------------------------------------------------------------------
(* Properties of the concurrent specifications WrapSpec and Spec *)

\* C2 as stated: every submission into the wrapping run table succeeds and no two of them
\* are ever assigned the same slot index.
C2_Original ==
    RtAsCreated =>
        /\ cnt["rt"].ok = cnt["rt"].sub
        /\ \A i, j \in DOMAIN allocs["rt"] : i # j => allocs["rt"][i] # allocs["rt"][j]

\* C2 (amended): under every interleaving, every submission into the wrapping run table of
\* capacity C succeeds (none is dropped), and the n-th compare-and-set to succeed hands out
\* slot (n-1) mod C: two submissions get the same slot index only when their allocations
\* are a multiple of C apart, so never when there are at most C submissions.
C2_WrapAllocation ==
    RtAsCreated =>
        /\ cnt["rt"].ok = cnt["rt"].sub
        /\ cnt["rt"].ok <= Len(allocs["rt"])
        /\ \A n \in DOMAIN allocs["rt"] : allocs["rt"][n] = (n - 1) % tbl["rt"].size
        /\ \A t \in Threads : th[t].pc = "dt_fill" /\ th[t].btp = "rt" =>
               \E n \in DOMAIN allocs["rt"] : allocs["rt"][n] = th[t].idx

\* C2 witness: all MaxWrapCalls submissions have succeeded, the table has wrapped, and the
\* last one to complete was not the last one to be given its slot (the callers overlapped)
C2_Witness ==
    /\ cnt["rt"].ok = MaxWrapCalls
    /\ Len(allocs["rt"]) = MaxWrapCalls
    /\ Len(allocs["rt"]) > tbl["rt"].size
    /\ last.op = "boottrace" /\ last.tbl = "rt" /\ last.ret = OK
    /\ last.idx # allocs["rt"][Len(allocs["rt"])]

\* C3 as stated: no two callers are at the same time between their successful
\* compare-and-set and the end of their writes to the same slot of the same table.
C3_Original ==
    \A t1, t2 \in Threads :
        (t1 # t2 /\ th[t1].pc = "dt_fill" /\ th[t2].pc = "dt_fill"
            /\ th[t1].btp = th[t2].btp) => th[t1].idx # th[t2].idx

\* the positions of a caller inside dotrace, or back from it
InDotrace == {"dt_null", "de_wr", "dt_read", "df_wr", "dt_cas", "dt_fill", "rt_done"}

\* C5: a submission that starts when the shutdown latch is already set (boottrace,
\* runtrace, boottrace_reset, the reset event of boottrace_resize, or shuttrace) runs dotrace
\* against the shutdown table only, and is recorded in or dropped against that table.
C5_ShutdownRouting ==
    /\ \A t \in Threads : (th[t].sd0 /\ th[t].pc \in InDotrace) => th[t].btp = "st"
    /\ (last.sd0 /\ last.tbl # "none") => last.tbl = "st"

\* C5 witness: once the boot is complete and the shutdown latch set, a plain boottrace()
\* call was recorded in the shutdown table
C5_Witness ==
    /\ last.op = "boottrace" /\ last.sd0 /\ last.bd0 /\ ~last.fat0
    /\ last.tbl = "st" /\ last.ret = OK

----------------------------------------------------------------------------
(* Properties of the renderer, under DisplaySpec *)

\* the delta column of a sequence of rows
Deltas(rows) == [i \in 1..Len(rows) |-> rows[i].delta]

RECURSIVE Pick(_, _, _)
\* the elements of seq whose index is in I, from index i on, in order
Pick(seq, I, i) ==
    IF i > Len(seq) THEN <<>>
    ELSE (IF i \in I THEN <<seq[i]>> ELSE <<>>) \o Pick(seq, I, i + 1)

\* the last call printed the shutdown table
StRendered == out # <<>> /\ out[1].tbl = "st" /\ ~out[1].fault

\* the case of C11: threshold 40, five visited entries with deltas 0, 5, 50, 2, 100
C11_Case ==
    /\ StRendered
    /\ out[1].dthres = 40
    /\ Deltas(out[1].seen) = <<0, 5, 50, 2, 100>>

\* C11 as stated: with threshold 40 and visited deltas 0, 5, 50, 2, 100 exactly three rows
\* are printed: the first visited entry, the entry with delta 50 and the one with delta 100.
C11_Original ==
    C11_Case => out[1].rows = <<out[1].seen[1], out[1].seen[3], out[1].seen[5]>>

\* C11 (amended): with threshold 40 and visited deltas 0, 5, 50, 2, 100 exactly four rows
\* are printed, in table order: the entry with delta 5 (landmark before 50), the entry with
\* delta 50, the entry with delta 2 (landmark before 100) and the entry with delta 100; the
\* first visited entry (delta 0) is not printed.
C11_LandmarkIsPrevious ==
    C11_Case => out[1].rows = SubSeq(out[1].seen, 2, 5)

\* C11 witness: the five entries were rendered with threshold 40 and four rows came out
C11_Witness == C11_Case /\ Len(out[1].rows) = 4 /\ out[1].visited = 5

\* the visited entries a render with threshold dthres is to print: delta above dthres, or next
\* visited entry's delta above dthres
Emitted(seen, dthres) ==
    {i \in 1..Len(seen) :
        seen[i].delta > dthres \/ (i < Len(seen) /\ seen[i + 1].delta > dthres)}

\* C12: with a threshold > 0, boottrace_display prints a visited entry if and only if its
\* delta exceeds the threshold or the next visited entry's delta does; the rows come out in
\* visiting order (so a landmark just before the entry it precedes), each at most once.
C12_FilterRule ==
    (StRendered /\ out[1].dthres > 0) =>
        out[1].rows = Pick(out[1].seen, Emitted(out[1].seen, out[1].dthres), 1)

\* C12 witness: a filtered render in which one entry was printed as a landmark only, one
\* entry above the threshold followed another one above it, and one entry was suppressed
C12_Witness ==
    /\ StRendered /\ out[1].dthres > 0
    /\ LET seen == out[1].seen
           dthres == out[1].dthres
       IN /\ \E i \in 1..(Len(seen) - 1) : seen[i].delta <= dthres /\ seen[i + 1].delta > dthres
          /\ \E i \in 1..(Len(seen) - 1) : seen[i].delta > dthres /\ seen[i + 1].delta > dthres
          /\ \E i \in 1..Len(seen) : i \notin Emitted(seen, dthres)
          /\ Len(out[1].rows) = Cardinality(Emitted(seen, dthres))

----------------------------------------------------------------------------
(* Properties of the renderer, under RaceSpec *)

\* the msecs column of a sequence of rows
MsecsOf(rows) == [i \in 1..Len(rows) |-> rows[i].msecs]

\* the least element of a non-empty sequence of numbers
MinOf(seq) == CHOOSE m \in {seq[i] : i \in DOMAIN seq} : \A i \in DOMAIN seq : m <= seq[i]

----------------------------------------------------------------------------
(* Invariants of the tables under Spec *)

\* C14 as stated: for each of the three tables, while its storage is allocated, the cursor
\* satisfies 0 <= curr < size, in every state reached by concurrent submissions, resets and
\* resizes that succeed or fail.
C14_Original ==
    \A t \in TableIds :
        tbl[t].table # NULL => (0 <= tbl[t].curr /\ tbl[t].curr < tbl[t].size)

\* C15 as stated: no step of any call lowers the size of a table, and only the size of the
\* run table ever changes.
C15_Original ==
    [][\A t \in TableIds :
          /\ tbl'[t].size >= tbl[t].size
          /\ t # "rt" => tbl'[t].size = tbl[t].size]_vars

----------------------------------------------------------------------------
(* Properties under EarlySpec *)

\* C16: a submission to a table without storage returns ENOSPC, adds one to that table's
\* drops_early, and writes no slot and moves no cursor of any table.
C16_DropBeforeInit ==
    [][\A t \in TableIds :
          (SubmittedTo(t) /\ tbl[t].table = NULL) =>
              /\ last'.ret = "ENOSPC"
              /\ last'.why = "early"
              /\ tbl'[t].drops_early = tbl[t].drops_early + 1
              /\ tbl'[t].drops_full = tbl[t].drops_full
              /\ \A u \in TableIds :
                    tbl'[u].table = tbl[u].table /\ tbl'[u].curr = tbl[u].curr]_vars

\* C16 witness: before boottrace_init, a boottrace() and then a shuttrace() were dropped
\* against the boot and the shutdown table
C16_Witness ==
    /\ tbl["st"].table = NULL /\ tbl["bt"].table = NULL
    /\ last.op = "shuttrace" /\ last.tbl = "st" /\ last.ret = "ENOSPC" /\ last.why = "early"
    /\ tbl["st"].drops_early = 1 /\ tbl["bt"].drops_early = 1
    /\ tbl["st"].curr = 0

\* C18: whenever shuttrace returns the shutdown latch is set, also when the event was
\* dropped because the shutdown table is full or has no storage; the call touches no table
\* but the shutdown table, where a recorded event occupies the slot at the old cursor.
C18_ShuttraceLatches ==
    [][(ncalls' = ncalls + 1 /\ last'.op = "shuttrace") =>
         /\ shutdown'
         /\ last'.tbl = "st"
         /\ tbl'["bt"] = tbl["bt"] /\ tbl'["rt"] = tbl["rt"]
         /\ bootdone' = bootdone
         /\ IF last'.ret = OK
            THEN /\ last'.idx = tbl["st"].curr
                 /\ tbl'["st"].table[last'.idx + 1].tsc # 0
            ELSE /\ last'.ret = "ENOSPC"
                 /\ tbl'["st"].table = tbl["st"].table]_vars

\* C18 witness: shuttrace calls were dropped before boottrace_init, recorded after it and
\* dropped again by the full shutdown table, and the latch is set
C18_Witness ==
    /\ shutdown
    /\ last.op = "shuttrace" /\ last.ret = "ENOSPC" /\ last.why = "full"
    /\ cnt["st"].early >= 1 /\ cnt["st"].ok >= 1
    /\ cnt["bt"].sub = 0 /\ cnt["rt"].sub = 0

----------------------------------------------------------------------------
(* Properties of the latches, under SeqSpec *)

\* C17: no call (submission, reset, resize, render or dump) changes bootdone from true to
\* false or shutdown from true to false.
C17_LatchesOneWay ==
    [][(bootdone => bootdone') /\ (shutdown => shutdown')]_vars

\* C17 witness: with both latches set, a resize succeeded and then the console was dumped
C17_Witness ==
    /\ bootdone /\ shutdown
    /\ tbl["rt"].size > size0["rt"]
    /\ last.op = "boottrace_dump_console" /\ last.bd0 /\ last.sd0
    /\ out # <<>>

\* C19: boottrace_reset(actor) makes exactly one submission, to the table the latches (and
\* rebooting / panicstr) select when it is called; when recorded, the event is named
\* "reset: <actor>"; bootdone is true when it returns, recorded or dropped, and shutdown is
\* as before.
C19_ResetSubmitsAndLatches ==
    [][(ncalls' = ncalls + 1 /\ last'.op = "boottrace_reset") =>
         LET t == SelectTable(bootdone, shutdown, fatal) IN
         /\ last'.tbl = t
         /\ cnt'[t].sub = cnt[t].sub + 1
         /\ \A u \in TableIds \ {t} : cnt'[u] = cnt[u] /\ tbl'[u] = tbl[u]
         /\ bootdone'
         /\ shutdown' = shutdown
         /\ IF last'.ret = OK
            THEN /\ last'.idx = tbl[t].curr
                 /\ tbl'[t].table[last'.idx + 1].name = "reset: sysctl_boottrace_reset"
                 /\ Len(allocs'[t]) = Len(allocs[t]) + 1
            ELSE /\ last'.ret = "ENOSPC"
                 /\ tbl'[t].table = tbl[t].table
                 /\ allocs' = allocs]_vars

\* C19 witness: the first boottrace_reset found the boot table full, was dropped, and left
\* bootdone set
C19_Witness ==
    /\ last.op = "boottrace_reset" /\ ~last.bd0 /\ ~last.sd0 /\ ~last.fat0
    /\ last.tbl = "bt" /\ last.ret = "ENOSPC" /\ last.why = "full"
    /\ bootdone

\* C20 as stated: a boottrace_resize that returns 0 has recorded the event
\* "reset: boottrace_resize" in the run table.
C20_Original ==
    [][(ncalls' = ncalls + 1 /\ last'.op = "boottrace_resize" /\ last'.ret = OK) =>
         /\ last'.tbl = "rt"
         /\ last'.idx >= 0
         /\ tbl'["rt"].table[last'.idx + 1].name = "reset: boottrace_resize"]_vars

\* C20 (amended): a boottrace_resize that returns 0 has submitted the event
\* "reset: boottrace_resize" once, through the phase router: to the shutdown table when
\* shutdown, rebooting or panicstr is set, else to the run table when bootdone was already
\* true, else to the boot table. Routed to the run table the event is recorded, at the
\* cursor; routed elsewhere it is recorded there or dropped when that table is full.
C20_ResizeEventRouted ==
    [][(ncalls' = ncalls + 1 /\ last'.op = "boottrace_resize" /\ last'.ret = OK) =>
         LET t == IF shutdown \/ fatal THEN "st" ELSE IF bootdone THEN "rt" ELSE "bt" IN
         /\ last'.tbl = t
         /\ cnt'[t].sub = cnt[t].sub + 1
         /\ \A u \in TableIds \ {t} : cnt'[u] = cnt[u]
         /\ bootdone'
         /\ t = "rt" => last'.idx = tbl["rt"].curr
         /\ IF last'.idx >= 0
            THEN tbl'[t].table[last'.idx + 1].name = "reset: boottrace_resize"
            ELSE last'.why = "full" /\ tbl'[t].table = tbl[t].table]_vars

\* C20 witness: a resize made before the boot was complete returned 0 with the run table
\* grown, and its reset event went to the full boot table and was dropped
C20_Witness ==
    /\ last.op = "boottrace_resize" /\ last.ret = OK
    /\ ~last.bd0 /\ ~last.sd0 /\ ~last.fat0
    /\ last.tbl = "bt" /\ last.why = "full"
    /\ tbl["rt"].size = last.arg /\ tbl["rt"].size > size0["rt"]
    /\ cnt["rt"].sub = 0

----------------------------------------------------------------------------
(* Properties of the endpoints, under SysctlSpec *)

\* the last call was a write to endpoint op that sysctl_handle_string accepted
Written(op) == last.op = op /\ last.arg.newptr /\ last.arg.copyin = OK

\* C21 as stated: every write to the run endpoint appends its event to the run table and
\* every write to the shutdown endpoint appends its event to the shutdown table,
\* whatever the latches are
C21_Original ==
    /\ Written("sysctl_runtrace") => last.tbl = "rt" /\ last.idx >= 0
    /\ Written("sysctl_shuttrace") => last.tbl = "st" /\ last.idx >= 0

\* C21 amended: a write to the run endpoint is routed by the latches as they are when it
\* arrives (shutdown table once shutdown, reboot or panic began, else run table if the
\* boot was complete, else boot table) and leaves bootdone set; a write to the shutdown
\* endpoint goes to the shutdown table and leaves shutdown set; the event is in the slot
\* reported unless that table was full or had no storage
C21_EndpointsRouted ==
    /\ Written("sysctl_runtrace") =>
           /\ last.tbl = (IF last.sd0 \/ last.fat0 THEN "st"
                          ELSE IF last.bd0 THEN "rt" ELSE "bt")
           /\ bootdone
    /\ Written("sysctl_shuttrace") => last.tbl = "st" /\ shutdown
    /\ Written("sysctl_runtrace") \/ Written("sysctl_shuttrace") =>
           /\ (last.idx >= 0) = (last.why = "")
           /\ last.idx >= 0 =>
                  tbl[last.tbl].table[last.idx + 1].name = "ev"

\* C21 witness: a write to the run endpoint while the kernel reboots or panics, recorded
\* in the shutdown table; the boot was complete
C21_Witness ==
    /\ Written("sysctl_runtrace")
    /\ last.bd0 /\ last.fat0
    /\ last.tbl = "st" /\ last.idx >= 0
    /\ tbl["st"].table[last.idx + 1].name = "ev"

\* C30: a write to sysctl_boottrace, sysctl_runtrace or sysctl_shuttrace whose event was
\* dropped, for a full table or one without storage, returns 0; boottrace and shuttrace
\* return ENOSPC for a drop and 0 otherwise
C30_DropHiddenFromRequester ==
    /\ \A op \in {"sysctl_boottrace", "sysctl_runtrace", "sysctl_shuttrace"} :
           Written(op) =>
               /\ last.tbl \in TableIds
               /\ last.ret = OK
    /\ last.op \in {"boottrace", "shuttrace"} =>
           /\ last.ret = (IF last.why \in {"full", "early"} THEN "ENOSPC" ELSE OK)
           /\ (last.why = "") = (last.idx >= 0)

\* C30 witness: a write to sysctl_boottrace dropped because the run table has no
\* storage returned 0, and a drop for a full table happened before
C30_Witness ==
    /\ Written("sysctl_boottrace")
    /\ last.why = "early" /\ last.tbl = "rt" /\ last.ret = OK
    /\ tbl["rt"].drops_early = 1
    /\ \E t \in TableIds : tbl[t].drops_full >= 1

----------------------------------------------------------------------------
(* Properties of the retry loop and the drop counters, under DropSpec *)

\* C22: every caller inside dotrace returns (with 0 or ENOSPC) whatever the other callers
\* do, and a compare-and-set of a caller fails only when the cursor is no longer the value
\* the caller read, that is after a compare-and-set of another caller succeeded
C22_DotraceReturns ==
    /\ [][\A t \in Threads :
            th[t].pc = "dt_cas" /\ th'[t].pc = "dt_read" =>
                /\ tbl[th[t].btp].curr # th[t].idx
                /\ \E k \in DOMAIN allocs[th[t].btp] : allocs[th[t].btp][k] = th[t].idx]_vars
    /\ \A t \in Threads : (th[t].pc # "idle") ~> (th[t].pc = "idle")

\* C22 witness: a caller whose compare-and-set failed is about to read the cursor again,
\* while another caller's call has returned
C22_Witness ==
    \E t \in Threads :
        /\ th[t].pc = "dt_read"
        /\ last.by # 0 /\ last.by # t /\ last.ret = OK

\* C23 as stated: in every table drops_full is the number of submissions that returned
\* ENOSPC for a full table and drops_early the number that returned ENOSPC for a table
\* without storage
C23_Original ==
    \A t \in TableIds :
        /\ tbl[t].drops_full = cnt[t].full
        /\ tbl[t].drops_early = cnt[t].early

----------------------------------------------------------------------------
(* Properties of a render of quiescent tables, under SeqSpec *)

\* the slots of table b in the order of one lap from the cursor
Lap(b) == [j \in 1..b.size |-> (b.curr + j - 1) % b.size]

\* the slots of that lap that hold an entry (tsc not 0)
LapEntries(b) ==
    LET Holds(i) == b.table[i + 1].tsc # 0 IN SelectSeq(Lap(b), Holds)

\* the last n elements of a sequence
Suffix(seq, n) == SubSeq(seq, Len(seq) - n + 1, Len(seq))

\* C24: a render with threshold 0 reads every slot of the table once, in the order of one
\* lap from the cursor, prints one row for each slot whose tsc is not 0 and none for the
\* others, and the rows are the most recent submissions recorded in the table, in the
\* order they were submitted
C24_LapInSubmissionOrder ==
    \A k \in DOMAIN out :
        LET o == out[k]
            b == tbl[o.tbl]
            e == LapEntries(b)
        IN o.dthres = 0 /\ ~o.fault =>
               /\ o.reads = Lap(b)
               /\ Len(o.rows) = Len(e)
               /\ \A j \in DOMAIN e :
                      /\ o.rows[j].tsc = b.table[e[j] + 1].tsc
                      /\ o.rows[j].name = b.table[e[j] + 1].name
               /\ Len(e) <= Len(fills[o.tbl])
               /\ [j \in DOMAIN e |-> o.rows[j].tsc] = Suffix(fills[o.tbl], Len(e))
               /\ \A i, j \in DOMAIN e : i < j => o.rows[i].tsc < o.rows[j].tsc

\* C24 witness: the run table was rendered after it wrapped: the lap starts in the middle
\* of the table, an older submission is gone, two rows are printed
C24_Witness ==
    /\ Len(out) = 2
    /\ out[2].tbl = "rt" /\ ~out[2].fault
    /\ tbl["rt"].curr = 1
    /\ Len(fills["rt"]) = 3
    /\ Len(out[2].rows) = 2
    /\ out[2].reads = <<1, 0>>

----------------------------------------------------------------------------
(* Properties of a render among concurrent submissions and resizes, under WalkSpec *)

\* the slot a walk is at lies inside the table, and the walk has read no more slots than
\* the table has
WalkInBounds ==
    \A t \in Threads :
        th[t].pc \in {"bd_read", "bd_next"} =>
            LET b == tbl[th[t].btp]
                n == Len(th[t].tmp.s.reads)
            IN /\ b.table # NULL
               /\ th[t].idx < b.size
               /\ th[t].idx < Len(b.table)
               /\ IF th[t].pc = "bd_read" THEN n < b.size ELSE n <= b.size

C26_RenderReadOnly ==
    [][/\ \A t \in Threads :
              th[t].pc \in InDisplay /\ th'[t] # th[t] =>
                  /\ UNCHANGED <<tbl, bootdone, shutdown, fatal, cyc, cnt, allocs, fills>>
                  /\ \A u \in Threads \ {t} : th'[u] = th[u]
       /\ \A t \in Threads :
              /\ th[t].pc = "dt_cas" /\ th'[t].pc = "dt_read" =>
                     tbl[th[t].btp].curr # th[t].idx
              /\ th[t].pc = "dt_cas" /\ th'[t].pc = "dt_fill" =>
                     /\ tbl[th[t].btp].curr = th[t].idx
                     /\ tbl'[th[t].btp].curr = th[t].nxt]_vars

\* C26 witness: while a walk of the run table is in progress, a submission to the run
\* table has returned 0 with the slot the cursor was at when the walk began
C26_Witness ==
    \E t \in Threads :
        /\ th[t].pc = "bd_read" /\ th[t].btp = "rt"
        /\ Len(th[t].tmp.s.reads) >= 1
        /\ last.op = "boottrace" /\ last.tbl = "rt" /\ last.ret = OK
        /\ last.idx = th[t].nxt

\* C27 as stated: the first entry a render visits has delta 0, and every later one has
\* its elapsed milliseconds minus those of the entry visited before it, or 0 when they did
\* not advance, also when the entry visited before it has 0 elapsed milliseconds
C27_Original ==
    \A k \in DOMAIN out :
        LET seen == out[k].seen IN
        \A j \in DOMAIN seen :
            seen[j].delta = IF j > 1 /\ seen[j].msecs > seen[j - 1].msecs
                            THEN seen[j].msecs - seen[j - 1].msecs
                            ELSE 0

----------------------------------------------------------------------------
(* Properties of the elapsed time, under UptimeSpec *)

\* C28 as stated: the elapsed milliseconds printed for an entry are its tsc times 1000
\* divided by tsc_freq, rounded down, in exact arithmetic, so an entry with a larger tsc
\* never has fewer elapsed milliseconds
C28_Original ==
    \A k \in DOMAIN out :
        LET seen == out[k].seen IN
        /\ \A j \in DOMAIN seen : seen[j].msecs = (seen[j].tsc * 1000) \div tsc_freq
        /\ \A i, j \in DOMAIN seen : seen[i].tsc <= seen[j].tsc => seen[i].msecs <= seen[j].msecs

----------------------------------------------------------------------------
(* Properties of the console dump, under SeqSpec *)

\* C29: boottrace_dump_console prints nothing when shutdown_trace is 0; otherwise, when
\* shutdown, reboot or panic is in progress, the shutdown table alone with the threshold
\* shutdown_trace_threshold, and else the boot table then the run table with threshold 0
C29_DumpConsole ==
    last.op = "boottrace_dump_console" =>
        IF last.arg.shutdown_trace = 0 THEN out = <<>>
        ELSE IF last.sd0 \/ last.fat0
        THEN /\ Len(out) = 1
             /\ out[1].tbl = "st" /\ out[1].dthres = last.arg.threshold
             /\ out[1].fault \/ out[1].visited = Len(fills["st"])
        ELSE /\ Len(out) = 2
             /\ out[1].tbl = "bt" /\ out[1].dthres = 0
             /\ out[2].tbl = "rt" /\ out[2].dthres = 0
             /\ out[1].fault \/ Len(out[1].rows) = Len(fills["bt"])
             /\ out[2].fault \/ Len(out[2].rows) = Len(LapEntries(tbl["rt"]))

\* C29 witness: the dump was asked for with the flag set and threshold 1 while the kernel
\* was rebooting or panicking, shutdown not begun; the shutdown table, which holds an
\* entry, is what was rendered
C29_Witness ==
    /\ last.op = "boottrace_dump_console"
    /\ last.arg.shutdown_trace = 1 /\ last.arg.threshold = 1
    /\ last.fat0 /\ ~last.sd0
    /\ Len(out) = 1 /\ out[1].tbl = "st" /\ out[1].dthres = 1
    /\ out[1].visited = 1

----------------------------------------------------------------------------
(* Properties of the tables that do not wrap, under FullSpec *)

\* the tables created with wrap = 0
NonWrapping == {"bt", "st"}

\* C31 as stated: once a submission to the boot or the shutdown table has returned ENOSPC
\* for a full table, the cursor and the slots of that table do not change any more
C31_Original ==
    [][\A t \in NonWrapping :
           cnt[t].full >= 1 =>
               /\ tbl'[t].curr = tbl[t].curr
               /\ tbl'[t].table = tbl[t].table]_vars

\* C31 amended: once a submission to the boot or the shutdown table has returned ENOSPC
\* for a full table, the cursor of that table stays where it is, no slot is handed out
\* any more, every caller that reads the cursor finds the table full, and a slot changes
\* only when a caller that was handed the slot before fills it
C31_FullForGood ==
    [][\A t \in NonWrapping :
           cnt[t].full >= 1 =>
               /\ tbl'[t].curr = tbl[t].curr
               /\ tbl[t].curr = tbl[t].size - 1
               /\ allocs'[t] = allocs[t]
               /\ \A u \in Threads :
                      /\ th[u].btp = t /\ th[u].pc \in {"dt_null", "dt_read"}
                      /\ th'[u] # th[u]
                      => th'[u].pc = "df_wr"
               /\ \A u \in Threads :
                      th[u].btp = t /\ th[u].pc = "df_wr" /\ th'[u] # th[u] =>
                          last'.ret = "ENOSPC" /\ last'.why = "full" /\ last'.tbl = t
               /\ tbl'[t].table # tbl[t].table =>
                      \E u \in Threads :
                          /\ th[u].pc = "dt_fill" /\ th[u].btp = t
                          /\ \E k \in DOMAIN allocs[t] : allocs[t][k] = th[u].idx
                          /\ tbl[t].table[th[u].idx + 1] = ZeroEvent
                          /\ \A i \in DOMAIN tbl[t].table :
                                 i # th[u].idx + 1 => tbl'[t].table[i] = tbl[t].table[i]]_vars

\* C31 witness: a submission to the boot table was dropped for a full table, and after it
\* a caller that had its slot already has filled it and returned 0
C31_Witness ==
    /\ cnt["bt"].full >= 1
    /\ last.tbl = "bt" /\ last.ret = OK
    /\ tbl["bt"].drops_full >= 1

----------------------------------------------------------------------------
(* Properties of the boot and run tables among concurrent callers, under Spec *)

\* C32: whatever the callers of boottrace, runtrace, shuttrace, boottrace_reset and
\* boottrace_resize do, slot 0 of the boot table is never handed out and keeps the entry
\* boottrace_init put there
C32_SeedKept ==
    /\ tbl["bt"].table[1] = Event(0, "initial event", "boottime")
    /\ \A k \in DOMAIN allocs["bt"] : allocs["bt"][k] # 0
    /\ tbl["bt"].curr >= 1

\* C32 witness: the boot table has been filled up to its last free slot and has dropped a
\* submission, a resize has been done, and slot 0 still holds the initial entry
C32_Witness ==
    /\ tbl["bt"].curr = tbl["bt"].size - 1
    /\ cnt["bt"].ok >= 1 /\ cnt["bt"].full >= 1
    /\ tbl["rt"].size > size0["rt"]
    /\ tbl["bt"].table[1].name = "initial event"

----------------------------------------------------------------------------
(* Frame of a plain submission, under SeqSpec *)

\* C33: a call of boottrace() leaves bootdone and shutdown as they were and changes one
\* table only: when it returns 0, the slot at the cursor and the cursor, which moves one
\* slot on; when it returns ENOSPC, one of the two drop counters, which goes up by one
C33_PlainSubmissionFrame ==
    [][last'.op = "boottrace" /\ ncalls' = ncalls + 1 =>
           LET t == last'.tbl IN
           /\ t \in TableIds
           /\ \A u \in TableIds \ {t} : tbl'[u] = tbl[u]
           /\ bootdone' = bootdone
           /\ shutdown' = shutdown
           /\ IF last'.ret = OK
              THEN /\ last'.idx = tbl[t].curr
                   /\ tbl'[t].table[last'.idx + 1].name = "ev"
                   /\ tbl'[t] = [tbl[t] EXCEPT
                                    !.curr = (tbl[t].curr + 1) % tbl[t].size,
                                    !.table[last'.idx + 1] = tbl'[t].table[last'.idx + 1]]
              ELSE /\ last'.ret = "ENOSPC"
                   /\ \/ tbl'[t] = [tbl[t] EXCEPT !.drops_full = @ + 1]
                      \/ tbl'[t] = [tbl[t] EXCEPT !.drops_early = @ + 1]]_vars

\* C33 witness: boottrace() has recorded an event in the boot table while the run table
\* is still as boottrace_init made it and neither latch is set
C33_Witness ==
    /\ last.op = "boottrace" /\ last.ret = OK /\ last.tbl = "bt"
    /\ tbl["bt"].table[last.idx + 1].name = "ev"
    /\ ~bootdone /\ ~shutdown
    /\ tbl["rt"].table = ZeroTable(tbl["rt"].size)

----------------------------------------------------------------------------
(* Properties of the shutdown phase among concurrent callers, under Spec *)

\* the boot table or the run table changes in this step
BootOrRunChanges == tbl'["bt"] # tbl["bt"] \/ tbl'["rt"] # tbl["rt"]

\* C34 as stated: no step taken while shutdown is set changes the boot table or the run
\* table
C34_Original == [][shutdown => ~BootOrRunChanges]_vars

\* C34 amended: a caller that tests the latches while shutdown is set goes on with the
\* shutdown table; a step that changes the boot or the run table while shutdown is set is
\* either a step of dotrace by a caller that entered boottrace() and chose its table
\* before shutdown was set, or the storage or the size of the run table stored by
\* boottrace_resize
C34_RoutedBeforeShutdown ==
    [][shutdown =>
           /\ \A t \in Threads :
                  th[t].pc = "bt_shut" /\ th'[t] # th[t] => th'[t].btp = "st"
           /\ BootOrRunChanges =>
                  \E t \in Threads :
                      /\ th'[t] # th[t]
                      /\ \/ /\ th[t].pc \in {"rs_realloc", "rs_size"}
                            /\ tbl'["bt"] = tbl["bt"]
                            /\ tbl'["rt"].curr = tbl["rt"].curr
                         \/ /\ th[t].pc \in {"de_wr", "df_wr", "dt_cas", "dt_fill"}
                            /\ th[t].btp \in {"bt", "rt"}
                            /\ ~th[t].sd0]_vars

\* C34 witness: a boottrace() call that had chosen the boot table has recorded its event
\* there after a shuttrace() call recorded its own in the shutdown table
C34_Witness ==
    /\ shutdown
    /\ last.op = "boottrace" /\ last.tbl = "bt" /\ last.ret = OK
    /\ fills["st"] # <<>>
    /\ fills["st"][1] < fills["bt"][Len(fills["bt"])]


----------------------------------------------------------------------------
(* Slot ownership in the non-wrapping tables among concurrent callers, under FullSpec *)

\* C35: in a non-wrapping table, under every interleaving of concurrent submissions, each
\* slot index is handed out at most once (two callers filling at the same time hold
\* different slots, and every index handed out lies inside the table), and the number of
\* successful submissions never exceeds the table's capacity
C35_SlotHandedOutOnce ==
    \A b \in NonWrapping :
        /\ \A i, j \in DOMAIN allocs[b] : i # j => allocs[b][i] # allocs[b][j]
        /\ \A i \in DOMAIN allocs[b] : allocs[b][i] \in 0 .. tbl[b].size - 1
        /\ \A t, u \in Threads :
               /\ t # u
               /\ th[t].pc = "dt_fill" /\ th[u].pc = "dt_fill"
               /\ th[t].btp = b /\ th[u].btp = b
               => th[t].idx # th[u].idx
        /\ Len(allocs[b]) <= tbl[b].size
        /\ cnt[b].ok <= tbl[b].size

\* two callers own slots of the same non-wrapping table at the same time, and with them
\* the table has handed out its last free slot
C35_Witness ==
    \E b \in NonWrapping : \E t, u \in Threads :
        /\ t # u
        /\ th[t].pc = "dt_fill" /\ th[u].pc = "dt_fill"
        /\ th[t].btp = b /\ th[u].btp = b
        /\ Len(allocs[b]) >= 2
        /\ TableFull(NextIdx(tbl[b].curr, tbl[b].size), tbl[b].wrap)


====
